---- MODULE Spec2Model ----
(***************************************************************************)
(* SequelizeSimpleCache (src/src/SequelizeSimpleCache.js): a per-model,    *)
(* in-memory read cache put in front of Sequelize models by a Proxy.       *)
(*                                                                         *)
(* One action per entry point of the class and per trap of the proxy.      *)
(* JavaScript runs each handler to completion, so a handler is one atomic  *)
(* step; the only suspension point of a cacheable call is the promise of   *)
(* the underlying operation, which splits the call into the step that      *)
(* issues it (Call) and the step that settles it (Resolve / Reject).       *)
(*                                                                         *)
(* Encodings.                                                              *)
(*  - `expires` is a number of milliseconds, or the JavaScript value       *)
(*    false, written Never.  Every use the code makes of it (`!expires`,   *)
(*    `expires && expires <= now`, `expires < oldest.expires`) treats      *)
(*    false exactly as the number 0 (falsy, ToNumber(false) = 0), and a    *)
(*    numeric expiry is Date.now() + ttl * 1000 > 0, so Never == 0.        *)
(*  - ttl is a tagged value [isNum, n] so that the configuration           *)
(*    `ttl: false` stays distinct from `ttl: 0`.                           *)
(*  - null and undefined results are the one value Null.                   *)
(*  - the md5 digest of the key is taken to be collision free: the hash    *)
(*    of a call is its rendered key.                                       *)
(*  - init(model) is called once per model (the documented usage).         *)
(*  - Object.keys(this.cache) is taken in a fixed order of the names.       *)
(***************************************************************************)
EXTENDS Integers, Sequences, FiniteSets, TLC

VARIABLES
    config,        \* this.config: configured type -> options
    proxies,       \* models that init() has wrapped
    cache,         \* this.cache: type -> its Map, for the types that have one
    associations,  \* this.associations: type -> adjacency list, for the keys it has
    stats,         \* this.stats
    now,           \* Date.now()
    inflight,      \* underlying read operations issued and not yet settled
    nextId,        \* number of cacheable calls issued so far
    models,        \* target.associations of each model: the names of its targets
    ret            \* what the step just taken handed to its caller

vars == <<config, proxies, cache, associations, stats, now, inflight, nextId,
          models, ret>>

----------------------------------------------------------------------------
(* Bounds of the model *)

\* cacheable calls issued in one behaviour
MaxCalls == 2
\* clock advances in one behaviour
MaxTicks == 1

(* Program constants *)

\* `ttl * 1000`: seconds to milliseconds
MsPerSec == 1000

TypeOrder == <<"A", "B", "C">>
Types == { TypeOrder[i] : i \in 1..Len(TypeOrder) }

Never == 0
Null == "null"
Values == {"v1", "v2"}
Errors == {"SequelizeDatabaseError"}

\* configured read and write member names (a subset of the default lists)
Methods == {"findOne", "findAll", "count"}
MethodsUpdate == {"update", "destroy"}

TtlNum(n) == [isNum |-> TRUE, n |-> n]
TtlFalse == [isNum |-> FALSE, n |-> 0]

Cfg(ttl, limit, clearOnUpdate) ==
    [ttl |-> ttl, limit |-> limit, clearOnUpdate |-> clearOnUpdate]

\* The applications the cache is constructed in: the configuration passed to
\* the constructor (a function from the configured names to their options)
\* and the associations the models declare.
Worlds ==
    { [config |-> [t \in {"A", "B", "C"} |->
                      CASE t = "A" -> Cfg(TtlNum(1), 1, TRUE)
                        [] t = "B" -> Cfg(TtlFalse, 1, FALSE)
                        [] OTHER   -> Cfg(TtlNum(0), 1, TRUE)],
       models |-> [t \in Types |-> IF t = "A" THEN <<"B">> ELSE <<>>]],
      [config |-> [t \in {"B", "C"} |->
                      IF t = "B" THEN Cfg(TtlNum(-1), 1, TRUE)
                      ELSE Cfg(TtlNum(1), 1, FALSE)],
       models |-> [t \in Types |->
                      CASE t = "B" -> <<"A">>
                        [] t = "C" -> <<"B">>
                        [] OTHER   -> <<>>]] }

----------------------------------------------------------------------------
(* Arguments of a call and SequelizeSimpleCache.key *)

\* Argument values: "q1" and "q2" are plain option objects, "tx" is an option
\* object that carries a transaction, "nul" is null / undefined, "f1" and "f2"
\* are option objects that hold two different functions of the same name.

\* `{ transaction }` destructured from an argument: a TypeError on null /
\* undefined, else the argument's transaction property.
IsNullish(a) == a = "nul"
TransactionOf(a) == a = "tx"

\* util.inspect of one argument.
Inspect(a) ==
    CASE a = "q1"  -> "{ where: { id: 1 } }"
      [] a = "q2"  -> "{ where: { id: 2 } }"
      [] a = "tx"  -> "{ where: { id: 1 }, transaction: Transaction { id: 't' } }"
      [] a \in {"f1", "f2"} -> "{ where: { id: 1 }, mapper: [Function: mapper] }"
      [] OTHER     -> "null"

\* key({type, prop, args}) followed by the md5 digest.
Key(type, prop, args) == <<type, prop, [i \in 1..Len(args) |-> Inspect(args[i])]>>

\* args.reduce((acc, { transaction }) => acc || transaction, false):
\* "throw" when the destructuring fails, else the truth value of withinTxn.
RECURSIVE WithinTxn(_, _)
WithinTxn(args, acc) ==
    IF args = <<>> THEN (IF acc THEN "true" ELSE "false")
    ELSE IF IsNullish(Head(args)) THEN "throw"
    ELSE WithinTxn(Tail(args), acc \/ TransactionOf(Head(args)))

\* The calls the application makes on each wrapped model: the member name and
\* the argument list.
Sig(prop, args) == [prop |-> prop, args |-> args]

CallsOn(t) ==
    CASE t = "A" -> { Sig("findOne", <<"q1">>), Sig("findOne", <<"q2">>),
                      Sig("findOne", <<"q1", "tx">>),
                      Sig("findOne", <<"nul", "tx">>) }
      [] t = "B" -> { Sig("findOne", <<"q1">>), Sig("findOne", <<"q2">>) }
      [] OTHER   -> { Sig("findOne", <<"q1">>) }

----------------------------------------------------------------------------
(* The per-type Map: a sequence of [hash, data, expires] in insertion order *)

Hashes(store) == { store[i].hash : i \in 1..Len(store) }

\* Map.prototype.get: the entry, or Null when absent
MapGet(store, hash) ==
    IF hash \in Hashes(store)
    THEN [found |-> TRUE, item |-> store[CHOOSE i \in 1..Len(store) : store[i].hash = hash]]
    ELSE [found |-> FALSE, item |-> [hash |-> hash, data |-> Null, expires |-> Never]]

\* mutant: set leaves an existing key as it is
MapSetIfAbsent(store, hash, data, expires) ==
    IF hash \in Hashes(store)
    THEN store
    ELSE Append(store, [hash |-> hash, data |-> data, expires |-> expires])

\* Map.prototype.set: an existing key keeps its place, a new one goes last
MapSet(store, hash, data, expires) ==
    LET e == [hash |-> hash, data |-> data, expires |-> expires]
    IN  IF hash \in Hashes(store)
        THEN [i \in 1..Len(store) |-> IF store[i].hash = hash THEN e ELSE store[i]]
        ELSE Append(store, e)

\* Map.prototype.delete
MapDelete(store, hash) == SelectSeq(store, LAMBDA e : e.hash # hash)

\* mutant: the lookup forgets entries that carry a numeric expiry
FreshNeverOnly(expires, t) == expires = Never

\* mutant: the lookup takes an entry that expires now to be fresh
FreshInclusive(expires, t) == expires = Never \/ expires >= t

\* `!expires || expires > Date.now()`
Fresh(expires, t) == expires = Never \/ expires > t

\* `expires && expires <= now`
\* mutant: an entry whose expiry is the current time is not yet expired
ExpiredStrict(expires, t) == expires # Never /\ expires < t

Expired(expires, t) == expires # Never /\ expires <= t

\* mutant: a ttl of 0 counts as a time to live
ExpiresFromZero(ttl, t) == IF ttl.isNum /\ ttl.n >= 0 THEN t + ttl.n * MsPerSec ELSE Never

\* `ttl > 0 ? Date.now() + ttl * 1000 : false`
Expires(ttl, t) == IF ttl.isNum /\ ttl.n > 0 THEN t + ttl.n * MsPerSec ELSE Never

NoOldest == [set |-> FALSE, hash |-> <<>>, expires |-> Never]

\* mutant: the scan tracks the entry that expires last
RECURSIVE PurgeScanLatest(_, _, _)
PurgeScanLatest(store, k, t) ==
    IF k = 0 THEN [kept |-> <<>>, oldest |-> NoOldest, purged |-> 0]
    ELSE LET r == PurgeScanLatest(store, k - 1, t)
             e == store[k]
         IN  IF Expired(e.expires, t)
             THEN [r EXCEPT !.purged = @ + 1]
             ELSE IF ~r.oldest.set \/ e.expires > r.oldest.expires
             THEN [r EXCEPT !.kept = Append(@, e),
                            !.oldest = [set |-> TRUE, hash |-> e.hash, expires |-> e.expires]]
             ELSE [r EXCEPT !.kept = Append(@, e)]

\* mutant: an entry that never expires is kept and never tracked as oldest
RECURSIVE PurgeScanSkipNever(_, _, _)
PurgeScanSkipNever(store, k, t) ==
    IF k = 0 THEN [kept |-> <<>>, oldest |-> NoOldest, purged |-> 0]
    ELSE LET r == PurgeScanSkipNever(store, k - 1, t)
             e == store[k]
         IN  IF Expired(e.expires, t)
             THEN [r EXCEPT !.purged = @ + 1]
             ELSE IF e.expires # Never /\ (~r.oldest.set \/ e.expires < r.oldest.expires)
             THEN [r EXCEPT !.kept = Append(@, e),
                            !.oldest = [set |-> TRUE, hash |-> e.hash, expires |-> e.expires]]
             ELSE [r EXCEPT !.kept = Append(@, e)]

\* The forEach of purge over the first k entries: the entries that survive, the
\* tracked `oldest`, and the number of purge events logged.
RECURSIVE PurgeScan(_, _, _)
PurgeScan(store, k, t) ==
    IF k = 0 THEN [kept |-> <<>>, oldest |-> NoOldest, purged |-> 0]
    ELSE LET r == PurgeScan(store, k - 1, t)
             e == store[k]
         IN  IF Expired(e.expires, t)
             THEN [r EXCEPT !.purged = @ + 1]
             ELSE IF ~r.oldest.set \/ e.expires < r.oldest.expires
             THEN [r EXCEPT !.kept = Append(@, e),
                            !.oldest = [set |-> TRUE, hash |-> e.hash, expires |-> e.expires]]
             ELSE [r EXCEPT !.kept = Append(@, e)]

\* mutant: purge deletes the expired entries and evicts nothing
PurgeStoreExpiredOnly(store, limit, t) ==
    LET r == PurgeScan(store, Len(store), t)
    IN  [store |-> r.kept, purged |-> r.purged]

\* purge of one type's Map: [store, purged]
PurgeStore(store, limit, t) ==
    LET r == PurgeScan(store, Len(store), t)
    IN  IF Len(r.kept) > limit /\ r.oldest.set
        THEN [store |-> MapDelete(r.kept, r.oldest.hash), purged |-> r.purged + 1]
        ELSE [store |-> r.kept, purged |-> r.purged]

\* What the step just taken handed to its caller: the kind of result, the type
\* and arguments of the call, the hash it looked up (<<>> when it computed
\* none), the value or error delivered, and whether the step invoked the
\* underlying operation of the model.
Ret(op, type, args, hash, data, invoked) ==
    [op |-> op, type |-> type, args |-> args, hash |-> hash, data |-> data,
     invoked |-> invoked]

\* clear, purge and the wrapped associate hand nothing back
Undefined == Ret("undefined", "", <<>>, <<>>, Null, FALSE)

----------------------------------------------------------------------------
(* Small helpers on functions and sequences *)

Range(seq) == { seq[i] : i \in 1..Len(seq) }

Put(f, k, v) == [x \in DOMAIN f \cup {k} |-> IF x = k THEN v ELSE f[x]]

\* Object.keys(obj) for an object keyed by type names, in a fixed order of
\* the names (no result below depends on the order of the keys)
KeysOf(f) == SelectSeq(TypeOrder, LAMBDA t : t \in DOMAIN f)

----------------------------------------------------------------------------
(* clear(...modelNames) *)

\* mutant: the loop visits the queued names and never queues an associated one
RECURSIVE ClearWalkNamesOnly(_, _, _)
ClearWalkNamesOnly(queue, visited, assoc) ==
    IF queue = <<>> THEN visited
    ELSE IF Head(queue) \in Range(visited)
         THEN ClearWalkNamesOnly(Tail(queue), visited, assoc)
         ELSE ClearWalkNamesOnly(Tail(queue), Append(visited, Head(queue)), assoc)

\* The while loop of clear: `queue`, and `visited` in the order the types were
\* added to typesToClear.
RECURSIVE ClearWalk(_, _, _)
ClearWalk(queue, visited, assoc) ==
    IF queue = <<>> THEN visited
    ELSE LET type == Head(queue)
         IN  IF type \in Range(visited)
             THEN ClearWalk(Tail(queue), visited, assoc)
             ELSE LET seen == Append(visited, type)
                      adj == IF type \in DOMAIN assoc THEN assoc[type] ELSE <<>>
                  IN  ClearWalk(Tail(queue) \o SelectSeq(adj, LAMBDA a : a \notin Range(seen)),
                                seen, assoc)

\* typesToClear of clear(...modelNames)
TypesToClear(modelNames, c, assoc) ==
    ClearWalk(IF Len(modelNames) > 0 THEN modelNames ELSE KeysOf(c), <<>>, assoc)

\* this.cache after clear(...modelNames)
Cleared(modelNames, c, assoc) ==
    LET types == Range(TypesToClear(modelNames, c, assoc))
    IN  [t \in DOMAIN c |-> IF t \in types THEN <<>> ELSE c[t]]

----------------------------------------------------------------------------
(* _registerAssociations / _addAssociations / _addReverseAssociations *)

\* this.associations.set(modelName, associatedModels)
AddAssociations(assoc, modelName, associatedModels) ==
    Put(assoc, modelName, associatedModels)

\* the for loop over the first k associated models
RECURSIVE AddReverseAssociations(_, _, _, _)
AddReverseAssociations(assoc, modelName, associatedModels, k) ==
    IF k = 0 THEN assoc
    ELSE LET a == AddReverseAssociations(assoc, modelName, associatedModels, k - 1)
             m == associatedModels[k]
             b == IF m \in DOMAIN a THEN a ELSE Put(a, m, <<>>)
         IN  IF modelName \in Range(b[m]) THEN b
             ELSE Put(b, m, Append(b[m], modelName))

RegisterAssociations(assoc, modelName, associatedModels) ==
    IF Len(associatedModels) = 0 THEN assoc
    ELSE AddReverseAssociations(AddAssociations(assoc, modelName, associatedModels),
                                modelName, associatedModels, Len(associatedModels))

Init ==
    /\ \E w \in Worlds : config = w.config /\ models = w.models
    /\ proxies = {}
    /\ cache = <<>>
    /\ associations = <<>>
    /\ stats = [hit |-> 0, miss |-> 0, load |-> 0, purge |-> 0]
    /\ now = MsPerSec
    /\ inflight = {}
    /\ nextId = 0
    /\ ret = Ret("new", "", <<>>, <<>>, Null, FALSE)

----------------------------------------------------------------------------
(* init(model): the store is created when the model is wrapped *)

\* mutant: init creates a store whether or not the model is configured
InitModelAlways(t) ==
    /\ t \notin proxies
    /\ proxies' = proxies \cup {t}
    /\ cache' = Put(cache, t, <<>>)
    /\ ret' = Undefined
    /\ UNCHANGED <<config, associations, stats, now, inflight, nextId, models>>

InitModel(t) ==
    /\ t \notin proxies
    /\ proxies' = proxies \cup {t}
    /\ cache' = IF t \in DOMAIN config THEN Put(cache, t, <<>>) ELSE cache
    /\ ret' = Undefined
    /\ UNCHANGED <<config, associations, stats, now, inflight, nextId, models>>

(* Date.now() advances, a second at a time; no call is made *)

Tick ==
    /\ now < MsPerSec + MaxTicks * MsPerSec
    /\ now' = now + MsPerSec
    /\ ret' = Undefined
    /\ UNCHANGED <<config, proxies, cache, associations, stats, inflight, nextId,
                   models>>

----------------------------------------------------------------------------
(* The get trap of the proxy, cacheable member: `fn` up to its first await *)

\* log(event): stats[event] += 1
Log(st, event, n) == [st EXCEPT ![event] = @ + n]

\* The lookup of fn: `item && (!expires || expires > Date.now())`
IsHit(store, hash, t) ==
    LET g == MapGet(store, hash)
    IN  g.found /\ Fresh(g.item.expires, t)

\* The pending operations of identical calls.  Identical calls cannot be told
\* apart by the outcome they may have, so they are numbered 1, 2, ... and the
\* one numbered last is the one that settles next.
Pending(t, args, hash) ==
    { c \in inflight : c.type = t /\ c.args = args /\ c.hash = hash }

SettlesNext(call) ==
    /\ call \in inflight
    /\ call.id = Cardinality(Pending(call.type, call.args, call.hash))

\* target[prop](...args) returned a promise: the operation is now in flight.
\* Otherwise `assert(promise.then, ...)` fails and the call rejects.
Invoke(t, args, hash, bypass) ==
    \E thenable \in BOOLEAN :
        IF thenable
        THEN /\ inflight' = inflight \cup
                    {[id |-> Cardinality(Pending(t, args, hash)) + 1, type |-> t, args |-> args, hash |-> hash,
                      bypass |-> bypass]}
             /\ ret' = Ret("pending", t, args, hash, Null, TRUE)
        ELSE /\ inflight' = inflight
             /\ ret' = Ret("rejected", t, args, hash, "AssertionError", TRUE)

Call(t, prop, args) ==
    /\ t \in proxies
    /\ t \in DOMAIN config
    /\ prop \in Methods
    /\ nextId < MaxCalls
    /\ nextId' = nextId + 1
    /\ LET within == WithinTxn(args, FALSE)
           hash == Key(t, prop, args)
       IN  CASE within = "throw" ->
                  \* the destructuring of a null argument throws inside fn
                  /\ ret' = Ret("rejected", t, args, <<>>, "TypeError", FALSE)
                  /\ UNCHANGED <<stats, inflight>>
             [] within = "true" ->
                  \* bypass cache
                  /\ Invoke(t, args, <<>>, TRUE)
                  /\ UNCHANGED stats
             [] OTHER ->
                  IF IsHit(cache[t], hash, now)
                  THEN /\ stats' = Log(stats, "hit", 1)
                       /\ ret' = Ret("hit", t, args, hash, MapGet(cache[t], hash).item.data, FALSE)
                       /\ UNCHANGED inflight
                  ELSE /\ stats' = Log(stats, "miss", 1)
                       /\ Invoke(t, args, hash, FALSE)
    /\ UNCHANGED <<config, proxies, cache, associations, now, models>>

(* promise.then((data) => { ... }): the underlying operation resolves *)

\* mutant: the then-handler stores whatever the operation resolved to
LoadedUnguarded(c, st, cfg, type, hash, data, t) ==
    [cache |-> Put(c, type, MapSet(c[type], hash, data, Expires(cfg.ttl, t))),
     stats |-> Log(st, "load", 1)]

\* mutant: the then-handler never calls purge
LoadedNoPurge(c, st, cfg, type, hash, data, t) ==
    IF data = Null THEN [cache |-> c, stats |-> st]
    ELSE [cache |-> Put(c, type, MapSet(c[type], hash, data, Expires(cfg.ttl, t))),
          stats |-> Log(st, "load", 1)]

\* [cache, stats] after the then-handler of a miss has run with `data`
Loaded(c, st, cfg, type, hash, data, t) ==
    IF data = Null THEN [cache |-> c, stats |-> st]
    ELSE LET stored == MapSet(c[type], hash, data, Expires(cfg.ttl, t))
             st1 == Log(st, "load", 1)
         IN  IF Len(stored) > cfg.limit
             THEN LET p == PurgeStore(stored, cfg.limit, t)
                  IN  [cache |-> Put(c, type, p.store), stats |-> Log(st1, "purge", p.purged)]
             ELSE [cache |-> Put(c, type, stored), stats |-> st1]

Resolve(call, data) ==
    /\ SettlesNext(call)
    /\ inflight' = inflight \ {call}
    /\ LET r == IF call.bypass THEN [cache |-> cache, stats |-> stats]
                ELSE Loaded(cache, stats, config[call.type], call.type, call.hash, data, now)
       IN  /\ cache' = r.cache
           /\ stats' = r.stats
    /\ ret' = Ret("resolved", call.type, call.args, call.hash, data, FALSE)
    /\ UNCHANGED <<config, proxies, associations, now, nextId, models>>

(* the underlying operation rejects: the then-handler never runs *)

\* mutant: a failed load drops what the store holds under the hash of the call
RejectDropping(call, err) ==
    /\ SettlesNext(call)
    /\ inflight' = inflight \ {call}
    /\ cache' = IF call.bypass THEN cache
                ELSE Put(cache, call.type, MapDelete(cache[call.type], call.hash))
    /\ ret' = Ret("rejected", call.type, call.args, call.hash, err, FALSE)
    /\ UNCHANGED <<config, proxies, associations, stats, now, nextId, models>>

Reject(call, err) ==
    /\ SettlesNext(call)
    /\ inflight' = inflight \ {call}
    /\ ret' = Ret("rejected", call.type, call.args, call.hash, err, FALSE)
    /\ UNCHANGED <<config, proxies, cache, associations, stats, now, nextId, models>>

----------------------------------------------------------------------------
(* The get trap of the proxy, invalidating member *)

\* mutant: the access clears whatever clearOnUpdate says
AccessUpdateAlways(t, prop) ==
    /\ t \in proxies
    /\ t \in DOMAIN config
    /\ prop \in MethodsUpdate
    /\ cache' = Cleared(<<t>>, cache, associations)
    /\ ret' = Ret("access", t, <<>>, <<>>, prop, FALSE)
    /\ UNCHANGED <<config, proxies, associations, stats, now, inflight, nextId, models>>

AccessUpdate(t, prop) ==
    /\ t \in proxies
    /\ t \in DOMAIN config
    /\ prop \in MethodsUpdate
    /\ cache' = IF config[t].clearOnUpdate THEN Cleared(<<t>>, cache, associations)
                ELSE cache
    /\ ret' = Ret("access", t, <<>>, <<>>, prop, FALSE)
    /\ UNCHANGED <<config, proxies, associations, stats, now, inflight, nextId, models>>

\* The caller calls the member the access has just returned to it: the write
\* of the data layer runs, outside the cache.
ExecWrite(t) ==
    /\ ret.op = "access"
    /\ ret.type = t
    /\ ret' = Ret("write", t, <<>>, <<>>, ret.data, TRUE)
    /\ UNCHANGED <<config, proxies, cache, associations, stats, now, inflight, nextId,
                   models>>

----------------------------------------------------------------------------
(* clear, clearCache, clearCacheAll *)

\* The lists of names clear and purge are called with
NameLists == { <<>>, <<"B">>, <<"A", "C">> }

Clear(modelNames) ==
    /\ cache' = Cleared(modelNames, cache, associations)
    /\ ret' = Undefined
    /\ UNCHANGED <<config, proxies, associations, stats, now, inflight, nextId, models>>

\* mutant: clearCache also drops the pending loads of the types it clears
ClearCacheCancelling(t) ==
    /\ t \in proxies
    /\ cache' = Cleared(<<t>>, cache, associations)
    /\ inflight' = { c \in inflight :
                         c.type \notin Range(TypesToClear(<<t>>, cache, associations)) }
    /\ ret' = Ret("clearCache", t, <<>>, <<>>, Null, FALSE)
    /\ UNCHANGED <<config, proxies, associations, stats, now, nextId, models>>

ClearCache(t) ==
    /\ t \in proxies
    /\ cache' = Cleared(<<t>>, cache, associations)
    /\ ret' = Ret("clearCache", t, <<>>, <<>>, Null, FALSE)
    /\ UNCHANGED <<config, proxies, associations, stats, now, inflight, nextId, models>>

ClearCacheAll(t) ==
    /\ t \in proxies
    /\ cache' = Cleared(<<>>, cache, associations)
    /\ ret' = Undefined
    /\ UNCHANGED <<config, proxies, associations, stats, now, inflight, nextId, models>>

----------------------------------------------------------------------------
(* purge(...modelNames) *)

\* types.forEach over the first k names: [cache, purged]
RECURSIVE PurgeTypes(_, _, _, _, _)
PurgeTypes(c, cfg, types, k, t) ==
    IF k = 0 THEN [cache |-> c, purged |-> 0]
    ELSE LET r == PurgeTypes(c, cfg, types, k - 1, t)
             type == types[k]
         IN  IF type \notin DOMAIN r.cache THEN r
             ELSE LET p == PurgeStore(r.cache[type], cfg[type].limit, t)
                  IN  [cache |-> Put(r.cache, type, p.store), purged |-> r.purged + p.purged]

Purge(modelNames) ==
    /\ LET types == IF Len(modelNames) > 0 THEN modelNames ELSE KeysOf(cache)
           r == PurgeTypes(cache, config, types, Len(types), now)
       IN  /\ cache' = r.cache
           /\ stats' = Log(stats, "purge", r.purged)
    /\ ret' = Ret("purge", "", modelNames, <<>>, Null, FALSE)
    /\ UNCHANGED <<config, proxies, associations, now, inflight, nextId, models>>

----------------------------------------------------------------------------
(* The wrapped associate method *)

Associate(t) ==
    /\ t \in proxies
    /\ associations' = RegisterAssociations(associations, t, models[t])
    /\ ret' = Undefined
    /\ UNCHANGED <<config, proxies, cache, stats, now, inflight, nextId, models>>

----------------------------------------------------------------------------

Next ==
    \/ \E t \in Types : InitModel(t)
    \/ Tick
    \/ \E t \in Types : \E sig \in CallsOn(t) : Call(t, sig.prop, sig.args)
    \/ \E call \in inflight, data \in Values \cup {Null} : Resolve(call, data)
    \/ \E call \in inflight, err \in Errors : Reject(call, err)
    \/ \E t \in Types : AccessUpdate(t, "update")
    \/ \E t \in Types : ExecWrite(t)
    \/ \E names \in NameLists : Clear(names)
    \/ \E t \in Types : ClearCache(t)
    \/ \E t \in Types : ClearCacheAll(t)
    \/ \E names \in NameLists : Purge(names)
    \/ \E t \in Types : Associate(t)

Spec == Init /\ [][Next]_vars

----------------------------------------------------------------------------
(* clear on a cycle of associations: three configured models, each with an *)
(* entry loaded, whose declarations join them in a triangle, either as a    *)
(* directed cycle or with one model declaring both others.                 *)

CycleModels ==
    { [t \in Types |-> CASE t = "A" -> <<"B">> [] t = "B" -> <<"C">> [] OTHER -> <<"A">>],
      [t \in Types |-> CASE t = "A" -> <<"B", "C">> [] t = "B" -> <<"C">> [] OTHER -> <<>>] }

InitCycle ==
    /\ config = [t \in Types |-> Cfg(TtlNum(1), 1, TRUE)]
    /\ models \in CycleModels
    /\ proxies = Types
    /\ now = MsPerSec
    /\ cache = [t \in Types |->
                    <<[hash |-> Key(t, "findOne", <<"q1">>), data |-> "v1",
                       expires |-> Expires(config[t].ttl, now)]>>]
    /\ associations = <<>>
    /\ stats = [hit |-> 0, miss |-> 3, load |-> 3, purge |-> 0]
    /\ inflight = {}
    /\ nextId = 3
    /\ ret = Ret("resolved", "C", <<"q1">>, Key("C", "findOne", <<"q1">>), "v1", FALSE)

NextCycle ==
    \/ \E t \in Types : Associate(t)
    \/ \E t \in Types : ClearCache(t)

SpecCycle == InitCycle /\ [][NextCycle]_vars

----------------------------------------------------------------------------
(* The key of a call on its own: one configured model, and calls that      *)
(* differ in the member, in an argument, in the order of the arguments, or *)
(* in the function an argument holds.                                      *)

KeyCalls ==
    { Sig("findOne", <<"q1">>), Sig("findAll", <<"q1">>), Sig("findOne", <<"q2">>),
      Sig("findOne", <<"q1", "q2">>), Sig("findOne", <<"q2", "q1">>),
      Sig("findOne", <<"f1">>), Sig("findOne", <<"f2">>) }

InitKey ==
    /\ config = [t \in {"A"} |-> Cfg(TtlNum(1), 2, TRUE)]
    /\ models = [t \in Types |-> <<>>]
    /\ proxies = {"A"}
    /\ cache = [t \in {"A"} |-> <<>>]
    /\ associations = <<>>
    /\ stats = [hit |-> 0, miss |-> 0, load |-> 0, purge |-> 0]
    /\ now = MsPerSec
    /\ inflight = {}
    /\ nextId = 0
    /\ ret = Ret("new", "", <<>>, <<>>, Null, FALSE)

NextKey ==
    \/ \E sig \in KeyCalls : Call("A", sig.prop, sig.args)
    \/ \E call \in inflight, data \in Values \cup {Null} : Resolve(call, data)

SpecKey == InitKey /\ [][NextKey]_vars

----------------------------------------------------------------------------
(* purge on its own.  purge(type) is entered from the then-handler of a    *)
(* load, right after cache.set made the Map larger than the limit, and on  *)
(* demand.  InitPurge draws the Map of type A that purge is entered with:  *)
(* any order of at most limit + 1 entries loaded at or before the current  *)
(* time (a reload keeps the place of an entry and renews its expiry, so    *)
(* the order of insertion is not the order of expiry); a Map of limit + 1  *)
(* entries ends with the entry just set.                                   *)

\* the hashes of three calls on A
PurgeKeys ==
    { Key("A", "findOne", <<"q1">>), Key("A", "findOne", <<"q2">>),
      Key("A", "findAll", <<"q1">>) }

\* the options of A: a ttl of two seconds, a limit of one or two entries
PurgeConfigs == { [t \in {"A"} |-> Cfg(TtlNum(2), limit, TRUE)] : limit \in {1, 2} }

\* the times of the clock up to t
ClockUpTo(t) == { n * MsPerSec : n \in 1..(t \div MsPerSec) }

\* the entries a load at or before time t has stored
LoadedEntries(cfg, t) ==
    { [hash |-> h, data |-> "v1", expires |-> Expires(cfg.ttl, at)] :
          h \in PurgeKeys, at \in ClockUpTo(t) }

\* the Maps purge may be entered with at time t
PurgeStores(cfg, t) ==
    { store \in UNION { [1..n -> LoadedEntries(cfg, t)] : n \in 0..(cfg.limit + 1) } :
          /\ \A i \in 1..Len(store), j \in 1..Len(store) :
                 store[i].hash = store[j].hash => i = j
          /\ Len(store) = cfg.limit + 1 =>
                 store[Len(store)].expires = Expires(cfg.ttl, t) }

InitPurge ==
    /\ config \in PurgeConfigs
    /\ models = [t \in Types |-> <<>>]
    /\ proxies = {"A"}
    /\ now = 3 * MsPerSec
    /\ cache \in { [t \in {"A"} |-> store] : store \in PurgeStores(config["A"], now) }
    /\ associations = <<>>
    /\ stats = [hit |-> 0, miss |-> 0, load |-> 0, purge |-> 0]
    /\ inflight = {}
    /\ nextId = 0
    /\ ret = Ret("new", "", <<>>, <<>>, Null, FALSE)

NextPurge == \E names \in NameLists : Purge(names)

SpecPurge == InitPurge /\ [][NextPurge]_vars

(* purge on its own, for every kind of ttl: the options of A have a ttl of  *)
(* two seconds or a ttl of false (entries that never expire).              *)

PurgeConfigsAll ==
    PurgeConfigs \cup { [t \in {"A"} |-> Cfg(TtlFalse, limit, TRUE)] : limit \in {1, 2} }

InitPurgeAll ==
    /\ config \in PurgeConfigsAll
    /\ models = [t \in Types |-> <<>>]
    /\ proxies = {"A"}
    /\ now = 3 * MsPerSec
    /\ cache \in { [t \in {"A"} |-> store] : store \in PurgeStores(config["A"], now) }
    /\ associations = <<>>
    /\ stats = [hit |-> 0, miss |-> 0, load |-> 0, purge |-> 0]
    /\ inflight = {}
    /\ nextId = 0
    /\ ret = Ret("new", "", <<>>, <<>>, Null, FALSE)

SpecPurgeAll == InitPurgeAll /\ [][NextPurge]_vars

----------------------------------------------------------------------------
(* Properties.  A step of a cacheable call is told from the state alone:   *)
(* Call is the only action that advances nextId, and Resolve and Reject    *)
(* the only ones that take a call out of inflight.                         *)

\* the step is a cacheable call
CallStep == nextId' = nextId + 1

\* the step is a cacheable call that got as far as the lookup of its hash
LookupStep == CallStep /\ ret'.hash # <<>>

\* the step settles an underlying operation: it resolves, or it rejects
ResolveStep == inflight' # inflight /\ inflight' \subseteq inflight /\ ret'.op = "resolved"
RejectStep == inflight' # inflight /\ inflight' \subseteq inflight /\ ret'.op = "rejected"

\* the options of type t say that its entries expire
LiveTtl(t) == config[t].ttl.isNum /\ config[t].ttl.n > 0

\* the entries of type t stored under hash h
EntriesAt(c, t, h) == { c[t][i] : i \in { j \in 1..Len(c[t]) : c[t][j].hash = h } }

\* C1: on a type whose ttl is live, a resolved non-null value is stored under
\* the hash of its call, and a call whose hash has an entry that has not yet
\* expired returns the data of that entry without invoking the underlying
\* operation; that call counts one hit and no miss.
C1_SecondCallHits ==
    [][ /\ (ResolveStep /\ ret'.hash # <<>> /\ ret'.data # Null /\ LiveTtl(ret'.type))
            => \E e \in EntriesAt(cache', ret'.type, ret'.hash) :
                   e.data = ret'.data /\ e.expires > now
        /\ LookupStep =>
             \A e \in EntriesAt(cache, ret'.type, ret'.hash) :
                 (LiveTtl(ret'.type) /\ e.expires > now) =>
                     /\ ret'.op = "hit"
                     /\ ret'.data = e.data
                     /\ ~ret'.invoked
                     /\ inflight' = inflight
                     /\ stats' = [stats EXCEPT !.hit = @ + 1]
                     /\ cache' = cache ]_vars

\* C1 witness: a second call on a type with a live ttl was answered from the
\* store, after one miss and one load.
C1_Witness ==
    /\ ret.op = "hit"
    /\ LiveTtl(ret.type)
    /\ ret.data \in Values
    /\ stats = [hit |-> 1, miss |-> 1, load |-> 1, purge |-> 0]

\* C2: a call that reaches the lookup is a hit if and only if the store holds
\* an entry for its hash whose expires is false or greater than the current
\* time; otherwise it counts a miss and invokes the underlying operation.  No
\* lookup and no passage of time takes an entry out of the store or changes
\* it: an entry found expired is still there after the call.
C2_HitIffLiveEntry ==
    [][ /\ LookupStep =>
             LET live == \E e \in EntriesAt(cache, ret'.type, ret'.hash) :
                             e.expires = Never \/ e.expires > now
             IN  /\ (ret'.op = "hit") <=> live
                 /\ live => (stats' = [stats EXCEPT !.hit = @ + 1] /\ ~ret'.invoked)
                 /\ ~live => (stats' = [stats EXCEPT !.miss = @ + 1] /\ ret'.invoked)
                 /\ cache' = cache
        /\ now' # now => cache' = cache ]_vars

\* C2 witness: a call has just missed on an entry that is in the store and
\* expired (its expires is the current time), and the entry is still there.
C2_Witness ==
    /\ ret.op = "pending"
    /\ ret.hash # <<>>
    /\ \E e \in EntriesAt(cache, ret.type, ret.hash) : e.expires # Never /\ e.expires <= now

\* the names in the adjacency list of type t
Adj(assoc, t) == IF t \in DOMAIN assoc THEN Range(assoc[t]) ELSE {}

\* the types joined to a type of S by association edges, an edge a - b being
\* an entry of b in the list of a or of a in the list of b
RECURSIVE Connected(_, _)
Connected(S, assoc) ==
    LET more == { u \in Types : \E v \in S : u \in Adj(assoc, v) \/ v \in Adj(assoc, u) }
    IN  IF more \subseteq S THEN S ELSE Connected(S \cup more, assoc)

\* the types reached from a type of S by following the adjacency lists
RECURSIVE Reached(_, _)
Reached(S, assoc) ==
    LET more == { u \in Types : \E v \in S : u \in Adj(assoc, v) }
    IN  IF more \subseteq S THEN S ELSE Reached(S \cup more, assoc)

\* the step is an access to an invalidating member
AccessStep == ret'.op = "access"

\* C3: an access to an invalidating member of a type with clearOnUpdate set
\* empties the store of that type and of every type joined to it by
\* association edges, transitively, and leaves every other store unchanged.
C3_WriteClearsAssociated ==
    [][ (AccessStep /\ config[ret'.type].clearOnUpdate) =>
            \A u \in DOMAIN cache :
                IF u \in Connected({ret'.type}, associations)
                THEN cache'[u] = <<>>
                ELSE cache'[u] = cache[u] ]_vars

\* C4: the association graph is symmetric in every state, and no step takes
\* a name out of an adjacency list.
C4_GraphSymmetricAppendOnly ==
    /\ [](\A a \in Types, b \in Types :
              b \in Adj(associations, a) => a \in Adj(associations, b))
    /\ [][ \A a \in Types : Adj(associations, a) \subseteq Adj(associations', a) ]_vars

\* the step is a purge that covers type t
PurgeStepOn(t) == ret'.op = "purge" /\ (ret'.args = <<>> \/ t \in Range(ret'.args))

\* store without its i-th entry
WithoutEntry(store, i) == SubSeq(store, 1, i - 1) \o SubSeq(store, i + 1, Len(store))

\* C5: a purge of a store that holds limit + 1 entries, all with a numeric
\* expiry later than the current time, removes exactly one entry, one whose
\* expiry is the smallest, and keeps the others; it counts one purge event.
C5_EvictsEarliest ==
    [][ \A t \in DOMAIN cache :
          ( /\ PurgeStepOn(t)
            /\ Len(cache[t]) = config[t].limit + 1
            /\ \A i \in 1..Len(cache[t]) :
                   cache[t][i].expires # Never /\ cache[t][i].expires > now )
          => /\ Len(cache'[t]) = config[t].limit
             /\ \E i \in 1..Len(cache[t]) :
                    /\ cache'[t] = WithoutEntry(cache[t], i)
                    /\ \A j \in 1..Len(cache[t]) :
                           cache[t][i].expires <= cache[t][j].expires
             /\ stats'.purge = stats.purge + 1 ]_vars

\* C5 witness: a purge has taken exactly one entry out of a store of type A
\* whose limit is 2, and the two entries it kept are unexpired and expire last.
C5_Witness ==
    /\ ret.op = "purge"
    /\ stats.purge = 1
    /\ config["A"].limit = 2
    /\ Len(cache["A"]) = 2
    /\ \A i \in 1..2 : cache["A"][i].expires = Expires(config["A"].ttl, now)

\* C6: on a type whose ttl is false, 0 or negative, every stored entry has
\* expires = false and a call whose hash has an entry is a hit at any time; an
\* entry of such a type leaves the store only when the store is cleared or
\* when a load makes the store larger than its limit: neither the clock nor
\* a purge of a store within its limit removes it.
C6_NeverExpires ==
    /\ [](\A t \in DOMAIN cache :
              ~LiveTtl(t) => \A i \in 1..Len(cache[t]) : cache[t][i].expires = Never)
    /\ [][ /\ (LookupStep /\ ~LiveTtl(ret'.type)
                          /\ EntriesAt(cache, ret'.type, ret'.hash) # {})
               => (ret'.op = "hit" /\ ~ret'.invoked)
           /\ \A t \in DOMAIN cache :
                ~LiveTtl(t) =>
                    /\ (now' # now \/ ret'.op = "purge") => cache'[t] = cache[t]
                    /\ (Hashes(cache[t]) \subseteq Hashes(cache'[t]))
                       \/ (cache'[t] = <<>> /\ stats' = stats)
                       \/ ( /\ ResolveStep /\ ret'.type = t
                            /\ Len(cache[t]) = config[t].limit
                            /\ ret'.hash \notin Hashes(cache[t])
                            /\ stats'.load = stats.load + 1
                            /\ stats'.purge = stats.purge + 1 ) ]_vars

\* C6 witness: a call on a type configured with ttl 0 has hit on an entry
\* with expires = false after the clock has advanced.
C6_Witness ==
    /\ ret.op = "hit"
    /\ config[ret.type].ttl = TtlNum(0)
    /\ now > MsPerSec
    /\ \E e \in EntriesAt(cache, ret.type, ret.hash) : e.expires = Never

\* the step resolves a call that had missed with null or undefined
NullResolveStep == ResolveStep /\ ret'.hash # <<>> /\ ret'.data = Null

\* C7 as claimed: when a miss resolves to null the value is returned, the
\* store and the counters stay as they were, and a lookup of the same hash
\* is then a miss.
C7_NullThenMiss ==
    [][ NullResolveStep =>
            /\ cache' = cache
            /\ stats' = stats
            /\ ~IsHit(cache'[ret'.type], ret'.hash, now') ]_vars

\* C7 as amended: when a miss resolves to null the value is returned and the
\* store and the counters stay as they were; the identical call that follows
\* is a miss and invokes the underlying operation again unless the store
\* holds a live entry for the hash, written by another call.
C7_NullNotCached ==
    [][ /\ NullResolveStep => (cache' = cache /\ stats' = stats)
        /\ ( /\ ret.op = "resolved" /\ ret.hash # <<>> /\ ret.data = Null
             /\ LookupStep /\ ret'.type = ret.type /\ ret'.hash = ret.hash
             /\ \A e \in EntriesAt(cache, ret.type, ret.hash) :
                    e.expires # Never /\ e.expires <= now )
           => (ret'.op # "hit" /\ ret'.invoked /\ stats'.miss = stats.miss + 1) ]_vars

\* C7 witness: the only call so far missed and has just resolved to null;
\* nothing was loaded.
C7_Witness ==
    /\ ret.op = "resolved"
    /\ ret.hash # <<>>
    /\ ret.data = Null
    /\ stats = [hit |-> 0, miss |-> 1, load |-> 0, purge |-> 0]
    /\ cache[ret.type] = <<>>

\* C8: when the underlying operation rejects, its error reaches the caller
\* and the step changes neither the store nor the counters; the call itself
\* had changed nothing but the miss counter.
C8_RejectionLeavesStore ==
    [][ /\ RejectStep => (ret'.data \in Errors /\ cache' = cache /\ stats' = stats)
        /\ (LookupStep /\ ret'.op # "hit")
               => (cache' = cache /\ stats' = [stats EXCEPT !.miss = @ + 1]) ]_vars

\* C8 witness: a load has stored an entry, a later call on the same type
\* missed and was rejected, and the entry is still the content of the store.
C8_Witness ==
    /\ ret.op = "rejected"
    /\ ret.data \in Errors
    /\ ret.hash # <<>>
    /\ stats = [hit |-> 0, miss |-> 2, load |-> 1, purge |-> 0]
    /\ Len(cache[ret.type]) = 1

\* C9: a cacheable call with an argument that carries a transaction invokes
\* the underlying operation and leaves the store and the counters alone, and
\* so does the step that resolves it, whatever it resolves to.
C9_TransactionBypasses ==
    [][ /\ (CallStep /\ \E i \in 1..Len(ret'.args) : TransactionOf(ret'.args[i]))
               => (ret'.invoked /\ cache' = cache /\ stats' = stats)
        /\ (ResolveStep /\ ret'.hash = <<>>) => (cache' = cache /\ stats' = stats) ]_vars

C11_StoreIffConfig ==
    \A t \in Types : (t \in DOMAIN cache) <=> (t \in DOMAIN config)

\* C11 as amended: in every reachable state a store exists for a type if and
\* only if the type is configured and init has wrapped the model of that name.
C11_StoreIffConfigAndInit ==
    \A t \in Types : (t \in DOMAIN cache) <=> (t \in DOMAIN config /\ t \in proxies)

\* C11 witness: an unconfigured model and a configured one have been
\* wrapped, a second configured one has not: only the wrapped configured
\* type has a store.
C11_Witness ==
    /\ \E t \in proxies : t \notin DOMAIN config /\ t \notin DOMAIN cache
    /\ \E t \in proxies : t \in DOMAIN config /\ t \in DOMAIN cache
    /\ \E t \in DOMAIN config : t \notin proxies /\ t \notin DOMAIN cache

\* the calls in flight that carry the type and the hash of the call of this step
SameKeyInFlight == { c \in inflight : c.type = ret'.type /\ c.hash = ret'.hash }

\* C12: a call whose key has an identical call in flight and no unexpired
\* entry counts a miss and invokes the underlying operation as well; every
\* resolution to a value leaves exactly one entry under the key, which holds
\* the value this resolution returned to its caller, whatever an identical
\* call had stored before.
C12_NoSingleFlight ==
    [][ /\ ( /\ LookupStep
             /\ SameKeyInFlight # {}
             /\ ~IsHit(cache[ret'.type], ret'.hash, now) )
           => /\ ret'.invoked
              /\ stats' = [stats EXCEPT !.miss = @ + 1]
              /\ ret'.op = "pending" =>
                     Cardinality(inflight') = Cardinality(inflight) + 1
        /\ (ResolveStep /\ ret'.hash # <<>> /\ ret'.data # Null)
           => /\ Cardinality({ i \in 1..Len(cache'[ret'.type]) :
                                   cache'[ret'.type][i].hash = ret'.hash }) = 1
              /\ \A e \in EntriesAt(cache', ret'.type, ret'.hash) :
                     e.data = ret'.data /\ e.expires = Expires(config[ret'.type].ttl, now) ]_vars

\* C12 witness: two identical calls missed one after the other; the first
\* resolution stored v1, the second has just resolved to v2 and the one
\* entry of the store now holds v2.
C12_Witness ==
    /\ ret.op = "resolved"
    /\ ret.data = "v2"
    /\ nextId = 2
    /\ inflight = {}
    /\ now = MsPerSec
    /\ stats = [hit |-> 0, miss |-> 2, load |-> 2, purge |-> 0]
    /\ Len(cache[ret.type]) = 1
    /\ cache[ret.type][1].hash = ret.hash
    /\ cache[ret.type][1].data = "v2"

\* C13: calls on the same type that differ in the member, in an argument
\* or in the order of the arguments never share an entry: two pending calls
\* with the same hash have the same arguments, and a call that hits on the
\* entry the preceding step has loaded has the arguments of the call that
\* loaded it.
C13_KeySeparatesCalls ==
    /\ [](\A c1 \in inflight, c2 \in inflight :
              (c1.type = c2.type /\ ~c1.bypass /\ ~c2.bypass /\ c1.hash = c2.hash)
                  => c1.args = c2.args)
    /\ [][ ( /\ ret.op = "resolved" /\ ret.hash # <<>> /\ ret.data # Null
             /\ LookupStep /\ ret'.op = "hit"
             /\ ret'.type = ret.type /\ ret'.hash = ret.hash )
           => (ret'.args = ret.args /\ ret'.data = ret.data) ]_vars

\* C14: clearCache() on the wrapper of model T empties the store of T and
\* leaves the store of every other model as it was; when T has no store the
\* call changes no store.
C14_ClearCacheSingleModel ==
    [][ ret'.op = "clearCache" =>
            \A u \in DOMAIN cache :
                IF u = ret'.type THEN cache'[u] = <<>> ELSE cache'[u] = cache[u] ]_vars

\* the store of t holds nothing but entries that never expire
AllNever(t) == \A i \in 1..Len(cache[t]) : cache[t][i].expires = Never

\* C15 as claimed: a purge never deletes an entry whose expires is false,
\* whatever the size of the store.
C15_NeverNotEvicted ==
    [][ \A t \in DOMAIN cache :
          PurgeStepOn(t) =>
              \A i \in 1..Len(cache[t]) :
                  cache[t][i].expires = Never => cache[t][i] \in Range(cache'[t]) ]_vars

\* C15 as amended: a purge of a store whose entries all never expire deletes
\* the entry scanned first, and only that one, when the store is over its
\* limit, and counts one purge event; it leaves a store within its limit as
\* it is.
C15_NeverEvictedFirst ==
    [][ \A t \in DOMAIN cache :
          (PurgeStepOn(t) /\ AllNever(t)) =>
              IF Len(cache[t]) > config[t].limit
              THEN /\ cache'[t] = Tail(cache[t])
                   /\ Len(cache'[t]) = config[t].limit
                   /\ stats'.purge = stats.purge + 1
              ELSE cache'[t] = cache[t] /\ stats' = stats ]_vars

\* C15 witness: a purge has taken one entry out of a store of A whose ttl is
\* false and whose limit is 2; the two entries left never expire.
C15_Witness ==
    /\ ret.op = "purge"
    /\ stats.purge = 1
    /\ config["A"].ttl = TtlFalse
    /\ config["A"].limit = 2
    /\ Len(cache["A"]) = 2
    /\ AllNever("A")

\* every model that declares associations has had its associate method called
\* and lists what it declares
CycleRegistered ==
    \A t \in Types : models[t] # <<>> => Range(models[t]) \subseteq Adj(associations, t)

C17_PurgeShrinks ==
    [][ \A t \in DOMAIN cache :
          (PurgeStepOn(t) /\ Len(cache[t]) > config[t].limit) =>
              /\ Len(cache'[t]) < Len(cache[t])
              /\ Len(cache'[t]) <= config[t].limit ]_vars

\* C17 witness: a purge has brought a store of three entries, two of them
\* expired, to one entry under its limit of 2.
C17_Witness ==
    /\ ret.op = "purge"
    /\ stats.purge = 2
    /\ config["A"].limit = 2
    /\ Len(cache["A"]) = 1

\* the number of entries the step has taken out of the stores of the types
RECURSIVE Removed(_)
Removed(types) ==
    IF types = <<>> THEN 0
    ELSE Len(cache[Head(types)]) - Len(cache'[Head(types)]) + Removed(Tail(types))

\* C18: after a purge of a type no entry of its store has a numeric expiry
\* at or before the time of the purge, whether or not the store was over its
\* limit; the entries left are entries the store held, and the purge counter
\* grows by the number of entries deleted.
C18_PurgeRemovesExpired ==
    [][ ret'.op = "purge" =>
          /\ \A t \in DOMAIN cache :
                 /\ Range(cache'[t]) \subseteq Range(cache[t])
                 /\ PurgeStepOn(t) =>
                        \A i \in 1..Len(cache'[t]) :
                            ~(cache'[t][i].expires # Never /\ cache'[t][i].expires <= now)
                 /\ ~PurgeStepOn(t) => cache'[t] = cache[t]
          /\ stats'.purge = stats.purge + Removed(KeysOf(cache)) ]_vars

\* C18 witness: a purge has deleted the one expired entry of a store of two
\* entries that was within its limit of 2; the entry left is unexpired.
C18_Witness ==
    /\ ret.op = "purge"
    /\ stats.purge = 1
    /\ config["A"].limit = 2
    /\ config["A"].ttl.isNum
    /\ Len(cache["A"]) = 1
    /\ cache["A"][1].expires > now

\* C19: in every reachable state, for every ttl setting, the store of a
\* configured type holds at most as many entries as its limit: the handler
\* of a load runs cache.set and the purge it triggers in one step.
C19_SizeWithinLimit ==
    \A t \in DOMAIN cache : Len(cache[t]) <= config[t].limit

\* C19 witness: on a type whose ttl is false a second load has just been
\* stored in a full store, and the purge it triggered has brought the store
\* back to its limit.
C19_Witness ==
    /\ ret.op = "resolved"
    /\ ret.hash # <<>>
    /\ config[ret.type].ttl = TtlFalse
    /\ stats.load = 2
    /\ stats.purge = 1
    /\ Len(cache[ret.type]) = config[ret.type].limit
    /\ cache[ret.type][1].hash = ret.hash

\* the step before has cleared stores: an access to an invalidating member
\* or a clearCache
JustCleared == ret.op \in {"access", "clearCache"}

\* C20: a step that empties stores leaves the loads in flight as they are,
\* and a load that resolves to a value right after a clear has emptied the
\* store of its type still stores that value, which is then the one entry
\* of the store.
C20_ClearKeepsLoads ==
    [][ /\ (ret'.op \in {"access", "clearCache"} \/ (cache' # cache /\ stats' = stats))
               => inflight' = inflight
        /\ ( /\ JustCleared
             /\ ResolveStep /\ ret'.hash # <<>> /\ ret'.data # Null
             /\ cache[ret'.type] = <<>> )
           => /\ cache'[ret'.type] =
                     <<[hash |-> ret'.hash, data |-> ret'.data,
                        expires |-> Expires(config[ret'.type].ttl, now)]>>
              /\ stats'.load = stats.load + 1
              /\ IsHit(cache'[ret'.type], ret'.hash, now') ]_vars

\* C20 witness: an access to an invalidating member of a type with
\* clearOnUpdate set has just emptied the store of the type while a load of
\* that type, issued before the access, is still in flight.
C20_Witness ==
    /\ ret.op = "access"
    /\ ret.type \in DOMAIN cache
    /\ config[ret.type].clearOnUpdate
    /\ cache[ret.type] = <<>>
    /\ stats.load = 1
    /\ \E c \in inflight : c.type = ret.type /\ ~c.bypass

====
